---- MODULE Spec2Model ----
(***************************************************************************)
(* Pointer-driven interaction engine of gantt-schedule-timeline-calendar:  *)
(* the ItemMovement plugin (src/unnamed/part_000) and the Selection plugin *)
(* (src/src/plugins/Selection/Selection.plugin.ts).                        *)
(*                                                                         *)
(* Optional JavaScript values (a property that may be undefined) are       *)
(* sequences: << >> is undefined, <<v>> is the value v.                    *)
(***************************************************************************)
EXTENDS Integers, Sequences, FiniteSets, TLC

(***************************************************************************)
(* Bounds of the model.                                                    *)
(***************************************************************************)
MaxTime == 7
MaxX == 3
MaxY == 1
MaxTimers == 2
MaxBelow == 2
MaxShrink == 3
MaxStack == 6
MaxLinks == 3
MaxCallTime == 4
MaxPoint == 3
MaxRows == 3
MaxTop == 3

Items == {"I1", "I2"}
Rows == {"R1", "R2"}
ItemOrder == <<"I1", "I2">>

(***************************************************************************)
(* Host values the plugin only reads: the bounding box of the timeline     *)
(* element and the layout of the item element.                             *)
(***************************************************************************)
GanttLeft == 1
GanttTop == 1
ElementOffsetTop == 0
MarginTop == 0

\* _internal.list.visibleRows: rows in display order with their top offsets
visibleRows == << [id |-> "R1", top |-> 0], [id |-> "R2", top |-> 1] >>

Buttons == {0, 2}

VARIABLES
  options,        \* plugin options after merging with defaultOptions
  itemCfg,        \* per item: own moveable / resizable / snap overrides
  rowCfg,         \* per row: own moveable / resizable overrides
  time,           \* _internal.chart.time: from, to, leftGlobal, timePerPixel
  pointerXs,      \* horizontal positions the pointer visits
  pointerYs,      \* vertical positions the pointer visits
  downAt,         \* positions [x, y] at which pointerdown events land
  rendered,       \* items that have an element on screen, so an action
  timerCap,       \* how many wait timers may be pending at once
  minEnd,         \* pointer moves are explored while every end time is >= minEnd
  items,          \* config.chart.items: time.start, time.end, rowId
  movementState,  \* the plugin's movementState table, keyed by item id
  msKeys,         \* insertion order of the keys of movementState
  pluginItem,     \* config.plugin.ItemMovement.item
  pluginMovement, \* config.plugin.ItemMovement.movement
  ghostNodes,     \* per item: the ghost elements of the item that are children
                  \* of the chart-timeline element
  listeners,      \* items whose action has its document listeners attached
  timers,         \* pending setTimeout callbacks of labelDown, oldest first
  moveAt,         \* clientX / clientY of the pointermove event just handled
                  \* (undefined after any other event)
  selPoints,      \* positions the pointer plugin reports
  linkedWith,     \* config.chart.items[id].linkedWith
  selected,       \* Selection plugin: data.selected[ITEM], a list of item ids
  itemSelected,   \* config.chart.items[id].selected
  selData,        \* Selection plugin: the remaining fields of this.data
  observed,       \* states of the selected flags that the subscribers of
                  \* config.chart.items were notified of by the last handler
  call,           \* last evaluation of a pure function: arguments and result
  last            \* the last event handled and what it was given

mvVars == << options, itemCfg, rowCfg, time, pointerXs, pointerYs, downAt, rendered, timerCap,
             minEnd, items, movementState,
             msKeys, pluginItem, pluginMovement, ghostNodes, listeners, timers, moveAt >>
selVars == << selPoints, linkedWith, selected, itemSelected, selData, observed >>
vars == << mvVars, selVars, call, last >>

Undefined == << >>
Def(v) == << v >>
IsDef(o) == o # << >>
Val(o) == o[1]

Abs(n) == IF n < 0 THEN -n ELSE n

(***************************************************************************)
(* moveable is boolean | 'x' | list of row ids; an absent own property is  *)
(* the tag "absent".                                                       *)
(***************************************************************************)
MvTrue == [tag |-> "true", rows |-> {}]
MvFalse == [tag |-> "false", rows |-> {}]
MvX == [tag |-> "x", rows |-> {}]
MvAbsent == [tag |-> "absent", rows |-> {}]
MvRows(rs) == [tag |-> "rows", rows |-> rs]

\* JavaScript truthiness of a moveable value ('x' and every array are truthy)
Truthy(mv) == mv.tag # "false"

(***************************************************************************)
(* defaultOptions                                                          *)
(***************************************************************************)
defaultOptions ==
  [ moveable |-> MvTrue, resizable |-> TRUE, collisionDetection |-> TRUE,
    outOfBorders |-> FALSE, snap |-> "default", ghostNode |-> TRUE ]

NoOverride == [moveable |-> MvAbsent, resizable |-> "absent", snap |-> "none"]
NoRowOverride == [moveable |-> MvAbsent, resizable |-> "absent"]

\* defaultOptions.snapStart / snapEnd, and a quantising snap function a user
\* may install in their place (on the plugin or on one item)
GridStep == 2

snapStart(kind, timeStart, startDiff) ==
  IF kind = "grid"
  THEN ((timeStart + startDiff) \div GridStep) * GridStep
  ELSE timeStart + startDiff

snapEnd(kind, timeEnd, endDiff) ==
  IF kind = "grid"
  THEN ((timeEnd + endDiff) \div GridStep) * GridStep
  ELSE timeEnd + endDiff

\* a lookup that ignores the item's own snap function
getSnapStartOfOptions(opts, icfg) == opts.snap

getSnapStart(opts, icfg) == IF icfg.snap # "none" THEN icfg.snap ELSE opts.snap

getSnapEnd(opts, icfg) == IF icfg.snap # "none" THEN icfg.snap ELSE opts.snap

\* a lookup that does not consult the row
isMoveableIgnoringRow(opts, icfg, rcfg) ==
  IF icfg.moveable.tag # "absent" /\ Truthy(opts.moveable)
  THEN icfg.moveable
  ELSE opts.moveable

isMoveable(opts, icfg, rcfg) ==
  LET m0 == opts.moveable
      m1 == IF icfg.moveable.tag # "absent" /\ Truthy(m0) THEN icfg.moveable ELSE m0
  IN IF rcfg.moveable.tag # "absent" /\ Truthy(m1) THEN rcfg.moveable ELSE m1

isResizable(opts, icfg, rcfg) ==
  LET r0 == opts.resizable /\ icfg.resizable \in {"absent", "true"}
  IN IF rcfg.resizable # "absent" /\ r0 THEN rcfg.resizable = "true" ELSE r0

(***************************************************************************)
(* Movement records.                                                       *)
(***************************************************************************)
FreshMovement ==
  [ moving |-> FALSE, resizing |-> FALSE, waiting |-> FALSE, ghost |-> Undefined,
    itemTop |-> Undefined, itemX |-> Undefined, ganttTop |-> Undefined,
    ganttLeft |-> Undefined ]

\* The part of the store the movement handlers read and write, as one value:
\* it, ms, keys, pItem, pMov, dom stand for items, movementState, msKeys,
\* pluginItem, pluginMovement, ghostNodes.
Store(it, ms, keys, pItem, pMov, dom) ==
  [it |-> it, ms |-> ms, keys |-> keys, pItem |-> pItem, pMov |-> pMov, dom |-> dom]

getMovement(S, itemId) ==
  IF itemId \in DOMAIN S.ms
  THEN S
  ELSE [S EXCEPT !.ms = @ @@ (itemId :> FreshMovement), !.keys = Append(@, itemId)]

saveMovement(S, itemId, movement) ==
  [S EXCEPT !.pItem = Def([id |-> itemId, movement |-> movement]),
            !.pMov = Def([moving |-> movement.moving, waiting |-> movement.waiting,
                          resizing |-> movement.resizing])]

\* Math.round of num / den for den > 0 (halves round up)
Round(num, den) == (2 * num + den) \div (2 * den)

\* a createGhost that does not look whether the record already has a ghost
createGhostUnguarded(opts, S, itemId, ev, ganttLeft, ganttTop) ==
  LET S1 == getMovement(S, itemId)
      m == S1.ms[itemId]
      itemTop == ev.y - ganttTop - ElementOffsetTop + MarginTop
      m2 == [m EXCEPT !.itemTop = Def(itemTop),
                      !.ghost = Def([left |-> ev.x - ganttLeft,
                                     top |-> ev.y - ganttTop - itemTop])]
  IN IF ~opts.ghostNode
     THEN S1
     ELSE saveMovement([S1 EXCEPT !.ms[itemId] = m2, !.dom[itemId] = @ + 1], itemId, m2)

createGhost(opts, S, itemId, ev, ganttLeft, ganttTop) ==
  LET S1 == getMovement(S, itemId)
      m == S1.ms[itemId]
      itemTop == ev.y - ganttTop - ElementOffsetTop + MarginTop
      m2 == [m EXCEPT !.itemTop = Def(itemTop),
                      !.ghost = Def([left |-> ev.x - ganttLeft,
                                     top |-> ev.y - ganttTop - itemTop])]
  IN IF ~opts.ghostNode \/ IsDef(m.ghost)
     THEN S1
     ELSE saveMovement([S1 EXCEPT !.ms[itemId] = m2, !.dom[itemId] = @ + 1], itemId, m2)

\* moveGhost dereferences movement.ghost: without a ghost it throws
moveGhostThrows(opts, S, itemId) ==
  opts.ghostNode /\ ~IsDef(getMovement(S, itemId).ms[itemId].ghost)

moveGhost(opts, S, itemId, ev) ==
  LET S1 == getMovement(S, itemId)
      m == S1.ms[itemId]
      m2 == [m EXCEPT !.ghost = Def([left |-> ev.x - Val(m.ganttLeft),
                                     top |-> ev.y - Val(m.ganttTop) - Val(m.itemTop)
                                             + MarginTop])]
  IN IF opts.ghostNode
     THEN saveMovement([S1 EXCEPT !.ms[itemId] = m2], itemId, m2)
     ELSE S1

\* destroyGhost(itemId) inside the action of item dataItemId: the record is
\* republished under the id of the action's own item
destroyGhost(opts, S, dataItemId, itemId) ==
  IF ~opts.ghostNode
  THEN S
  ELSE IF itemId \in DOMAIN S.ms /\ IsDef(S.ms[itemId].ghost)
       THEN LET m2 == [S.ms[itemId] EXCEPT !.ghost = Undefined]
            IN saveMovement([S EXCEPT !.ms[itemId] = m2, !.dom[itemId] = @ - 1],
                            dataItemId, m2)
       ELSE S

\* a validator that lets intervals touch at a boundary
isCollisionStrict(opts, tm, cache, itemId, start, end) ==
  IF ~opts.collisionDetection
  THEN FALSE
  ELSE IF opts.outOfBorders /\ (start < tm.from \/ end > tm.to)
       THEN TRUE
       ELSE IF Abs(end - start) <= 1
            THEN TRUE
            ELSE \E rowItem \in cache :
                   /\ rowItem.id # itemId
                   /\ \/ start > rowItem.start /\ start < rowItem.end
                      \/ end > rowItem.start /\ end < rowItem.end
                      \/ start <= rowItem.start /\ end >= rowItem.end

\* a validator that does not test the proposed start against the other items
isCollisionNoStartTest(opts, tm, cache, itemId, start, end) ==
  IF ~opts.collisionDetection
  THEN FALSE
  ELSE IF opts.outOfBorders /\ (start < tm.from \/ end > tm.to)
       THEN TRUE
       ELSE IF Abs(end - start) <= 1
            THEN TRUE
            ELSE \E rowItem \in cache :
                   /\ rowItem.id # itemId
                   /\ \/ end >= rowItem.start /\ end <= rowItem.end
                      \/ start <= rowItem.start /\ end >= rowItem.end

\* a validator that does not test the proposed end against the other items
isCollisionNoEndTest(opts, tm, cache, itemId, start, end) ==
  IF ~opts.collisionDetection
  THEN FALSE
  ELSE IF opts.outOfBorders /\ (start < tm.from \/ end > tm.to)
       THEN TRUE
       ELSE IF Abs(end - start) <= 1
            THEN TRUE
            ELSE \E rowItem \in cache :
                   /\ rowItem.id # itemId
                   /\ \/ start >= rowItem.start /\ start <= rowItem.end
                      \/ start <= rowItem.start /\ end >= rowItem.end

\* a validator that does not test whether the proposed interval contains
\* another item
isCollisionNoContainTest(opts, tm, cache, itemId, start, end) ==
  IF ~opts.collisionDetection
  THEN FALSE
  ELSE IF opts.outOfBorders /\ (start < tm.from \/ end > tm.to)
       THEN TRUE
       ELSE IF Abs(end - start) <= 1
            THEN TRUE
            ELSE \E rowItem \in cache :
                   /\ rowItem.id # itemId
                   /\ \/ start >= rowItem.start /\ start <= rowItem.end
                      \/ end >= rowItem.start /\ end <= rowItem.end

(***************************************************************************)
(* Collision validator.  cache is the item cache of the row, a set of     *)
(* entries [id, start, end]; tm is _internal.chart.time.                   *)
(***************************************************************************)
isCollision(opts, tm, cache, itemId, start, end) ==
  IF ~opts.collisionDetection
  THEN FALSE
  ELSE IF opts.outOfBorders /\ (start < tm.from \/ end > tm.to)
       THEN TRUE
       ELSE IF Abs(end - start) <= 1
            THEN TRUE
            ELSE \E rowItem \in cache :
                   /\ rowItem.id # itemId
                   /\ \/ start >= rowItem.start /\ start <= rowItem.end
                      \/ end >= rowItem.start /\ end <= rowItem.end
                      \/ start <= rowItem.start /\ end >= rowItem.end

\* row._internal.items of row rowId: the renderer keeps it equal to the items
\* whose rowId is rowId
rowItems(it, rowId) ==
  { [id |-> i, start |-> it[i].start, end |-> it[i].end] :
      i \in {j \in Items : it[j].rowId = rowId} }

(***************************************************************************)
(* Handlers of one item's action.  S is the store (see Store), itemId the  *)
(* item of the action's data, ev the pointer event [x, y, button].         *)
(***************************************************************************)
\* a time move that commits without consulting the collision validator
movementXUnvalidated(S, itemId, ev, rowId) ==
  LET movement == getMovement(S, itemId).ms[itemId]
      left == ev.x - Val(movement.ganttLeft)
      S2 == moveGhost(options, S, itemId, ev)
      item == S2.it[itemId]
      leftMs == time.leftGlobal + left * time.timePerPixel
      finalStartTime == snapStart(getSnapStart(options, itemCfg[itemId]), item.start,
                                  leftMs - item.start)
      finalAdd == finalStartTime - item.start
  IN IF finalAdd # 0
     THEN [S2 EXCEPT !.it[itemId].start = @ + finalAdd,
                     !.it[itemId].end =
                        snapEnd(getSnapEnd(options, itemCfg[itemId]), @, finalAdd) - 1]
     ELSE S2

\* a time move that shifts the end by the same delta as the start
movementXKeepDuration(S, itemId, ev, rowId) ==
  LET movement == getMovement(S, itemId).ms[itemId]
      left == ev.x - Val(movement.ganttLeft)
      S2 == moveGhost(options, S, itemId, ev)
      item == S2.it[itemId]
      leftMs == time.leftGlobal + left * time.timePerPixel
      finalStartTime == snapStart(getSnapStart(options, itemCfg[itemId]), item.start,
                                  leftMs - item.start)
      finalAdd == finalStartTime - item.start
      collision == isCollision(options, time, rowItems(S2.it, rowId), itemId,
                               item.start + finalAdd, item.end + finalAdd)
  IN IF finalAdd # 0 /\ ~collision
     THEN [S2 EXCEPT !.it[itemId].start = @ + finalAdd,
                     !.it[itemId].end =
                        snapEnd(getSnapEnd(options, itemCfg[itemId]), @, finalAdd)]
     ELSE S2

movementX(S, itemId, ev, rowId) ==
  LET movement == getMovement(S, itemId).ms[itemId]
      left == ev.x - Val(movement.ganttLeft)
      S2 == moveGhost(options, S, itemId, ev)
      item == S2.it[itemId]
      leftMs == time.leftGlobal + left * time.timePerPixel
      add == leftMs - item.start
      originalStart == item.start
      finalStartTime == snapStart(getSnapStart(options, itemCfg[itemId]), item.start, add)
      finalAdd == finalStartTime - originalStart
      collision == isCollision(options, time, rowItems(S2.it, rowId), itemId,
                               item.start + finalAdd, item.end + finalAdd)
  IN IF finalAdd # 0 /\ ~collision
     THEN [S2 EXCEPT !.it[itemId].start = @ + finalAdd,
                     !.it[itemId].end =
                        snapEnd(getSnapEnd(options, itemCfg[itemId]), @, finalAdd) - 1]
     ELSE S2

resizeX(S, itemId, ev, rowId) ==
  LET movement == getMovement(S, itemId).ms[itemId]
      item == S.it[itemId]
      left == ev.x - Val(movement.ganttLeft)
      leftMs == time.leftGlobal + left * time.timePerPixel
      add == leftMs - item.end
      originalEnd == item.end
      finalEndTime == snapEnd(getSnapEnd(options, itemCfg[itemId]), item.end, add) - 1
      finalAdd == finalEndTime - originalEnd
      collision == isCollision(options, time, rowItems(S.it, rowId), itemId,
                               item.start, item.end + finalAdd)
  IN IF ~isResizable(options, itemCfg[itemId], rowCfg[rowId])
     THEN S
     ELSE IF item.end + add < item.start
          THEN S
          ELSE IF finalAdd # 0 /\ ~collision
               THEN [S EXCEPT
                      !.it[itemId].start =
                         snapStart(getSnapStart(options, itemCfg[itemId]), @, 0),
                      !.it[itemId].end =
                         snapEnd(getSnapEnd(options, itemCfg[itemId]), @, finalAdd) - 1]
               ELSE S

\* a row search that returns the first row below the pointer instead of
\* stepping back to the row before it
movementYLoopNoStepBack(rows, top, index) ==
  LET below == {k \in DOMAIN rows : rows[k].top > top}
  IN IF below = {}
     THEN Len(rows)
     ELSE (CHOOSE k \in below : \A j \in below : k <= j) - 1

\* the loop of movementY over the list rows of visible rows, from 0-based
\* position index on
RECURSIVE movementYLoop(_, _, _)
movementYLoop(rows, top, index) ==
  IF index >= Len(rows)
  THEN index
  ELSE IF rows[index + 1].top > top
       THEN (IF index > 0 THEN index - 1 ELSE 0)
       ELSE movementYLoop(rows, top, index + 1)

\* the 0-based index movementY returns (its moveGhost call is in documentMove)
movementY(S, itemId, ev) ==
  movementYLoop(visibleRows, ev.y - Val(getMovement(S, itemId).ms[itemId].ganttTop), 0)

\* documentMove's correction of an index that names no row of the list
visibleRowsIndex(rows, index) ==
  IF index + 1 \in DOMAIN rows
  THEN index
  ELSE IF index > 0 THEN Len(rows) - 1
       ELSE IF index < 0 THEN 0 ELSE index

documentMove(S, itemId, ev) ==
  LET S1 == getMovement(S, itemId)
      movement == S1.ms[itemId]
      rowId == S1.it[itemId].rowId
      moveable == isMoveable(options, itemCfg[itemId], rowCfg[rowId])
      callsX == \/ moveable.tag \in {"true", "x"}
                \/ moveable.tag = "rows" /\ rowId \in moveable.rows
      returnsAfterX == ~Truthy(moveable) \/ moveable.tag = "x"
      SX == IF callsX THEN movementX(S1, itemId, ev, rowId) ELSE S1
      SY == moveGhost(options, SX, itemId, ev)
      index == visibleRowsIndex(visibleRows, movementY(SX, itemId, ev))
      newRow == visibleRows[index + 1]
      newRowId == newRow.id
      item == SY.it[itemId]
      collision == isCollision(options, time, rowItems(SY.it, newRowId), itemId,
                               item.start, item.end)
  IN IF movement.moving
     THEN IF moveGhostThrows(options, S1, itemId) /\ (callsX \/ ~returnsAfterX)
          THEN S1
          ELSE IF returnsAfterX
               THEN SX
               ELSE IF /\ newRowId # item.rowId
                       /\ ~collision
                       /\ moveable.tag # "rows" \/ newRowId \in moveable.rows
                       /\ \/ rowCfg[newRowId].moveable.tag = "absent"
                          \/ Truthy(rowCfg[newRowId].moveable)
                    THEN [SY EXCEPT !.it[itemId].rowId = newRowId]
                    ELSE SY
     ELSE IF movement.resizing /\ itemCfg[itemId].resizable \in {"absent", "true"}
          THEN resizeX(S1, itemId, ev, rowId)
          ELSE S1

\* the for-in loop of documentUp over the remaining keys of movementState
RECURSIVE documentUpLoop(_, _, _)
documentUpLoop(S, dataItemId, keys) ==
  IF keys = << >>
  THEN S
  ELSE LET itemId == Head(keys)
           S1 == [S EXCEPT !.ms[itemId].moving = FALSE,
                           !.ms[itemId].resizing = FALSE,
                           !.ms[itemId].waiting = FALSE]
       IN documentUpLoop(destroyGhost(options, S1, dataItemId, itemId),
                         dataItemId, Tail(keys))

documentUp(S, itemId) ==
  LET S1 == getMovement(S, itemId)
      movement == S1.ms[itemId]
      m2 == [movement EXCEPT !.moving = FALSE, !.waiting = FALSE, !.resizing = FALSE]
      S2 == saveMovement([S1 EXCEPT !.ms[itemId] = m2], itemId, m2)
  IN IF movement.moving \/ movement.resizing \/ movement.waiting
     THEN documentUpLoop(S2, itemId, S2.keys)
     ELSE S1

\* a pointerdown handler that shows the ghost at once instead of leaving it to
\* the timer callback
labelDownWithGhost(S, itemId, ev) ==
  LET S1 == getMovement(S, itemId)
      m2 == [S1.ms[itemId] EXCEPT !.waiting = TRUE]
  IN IF ev.button # 0
     THEN S
     ELSE createGhost(options, saveMovement([S1 EXCEPT !.ms[itemId] = m2], itemId, m2),
                      itemId, ev, GanttLeft, GanttTop)

\* labelDown up to the setTimeout call
labelDown(S, itemId, ev) ==
  LET S1 == getMovement(S, itemId)
      m2 == [S1.ms[itemId] EXCEPT !.waiting = TRUE]
  IN IF ev.button # 0
     THEN S
     ELSE saveMovement([S1 EXCEPT !.ms[itemId] = m2], itemId, m2)

\* a timer callback that starts the move of every waiting record, as if the
\* drag state were kept per pointer and not per item
labelDownTimeoutAllWaiting(S, timer) ==
  LET itemId == timer.item
      ms2 == [k \in DOMAIN S.ms |->
                IF S.ms[k].waiting
                THEN [S.ms[k] EXCEPT !.moving = TRUE,
                                     !.ganttTop = Def(GanttTop),
                                     !.ganttLeft = Def(GanttLeft)]
                ELSE S.ms[k]]
      S2 == saveMovement([S EXCEPT !.ms = ms2], itemId, ms2[itemId])
  IN IF ~S.ms[itemId].waiting
     THEN S
     ELSE createGhost(options, S2, itemId, [x |-> timer.x, y |-> timer.y],
                      GanttLeft, GanttTop)

\* the callback labelDown hands to setTimeout; timer.item is the item of the
\* captured movement record, timer.x / timer.y the captured down event
labelDownTimeout(S, timer) ==
  LET itemId == timer.item
      movement == S.ms[itemId]
      item == S.it[itemId]
      m2 == [movement EXCEPT
               !.moving = TRUE,
               !.ganttTop = Def(GanttTop),
               !.ganttLeft = Def(GanttLeft),
               !.itemX = Def([num |-> Round(item.start - time.leftGlobal,
                                            time.timePerPixel),
                              den |-> 1])]
      S2 == saveMovement([S EXCEPT !.ms[itemId] = m2], itemId, m2)
  IN IF ~movement.waiting
     THEN S
     ELSE createGhost(options, S2, itemId, [x |-> timer.x, y |-> timer.y],
                      GanttLeft, GanttTop)

resizerDown(S, itemId, ev) ==
  LET S1 == getMovement(S, itemId)
      item == S1.it[itemId]
      m2 == [S1.ms[itemId] EXCEPT
               !.resizing = TRUE,
               !.ganttTop = Def(GanttTop),
               !.ganttLeft = Def(GanttLeft),
               !.itemX = Def([num |-> item.end - time.leftGlobal,
                              den |-> time.timePerPixel])]
  IN IF ev.button # 0
     THEN S
     ELSE saveMovement([S1 EXCEPT !.ms[itemId] = m2], itemId, m2)

(***************************************************************************)
(* Dispatch of a document event to the listeners, in registration order.   *)
(***************************************************************************)
RECURSIVE dispatchMove(_, _, _)
dispatchMove(S, ls, ev) ==
  IF ls = << >> THEN S
  ELSE dispatchMove(documentMove(S, Head(ls), ev), Tail(ls), ev)

RECURSIVE dispatchUp(_, _)
dispatchUp(S, ls) ==
  IF ls = << >> THEN S
  ELSE dispatchUp(documentUp(S, Head(ls)), Tail(ls))

(***************************************************************************)
(* Selection plugin.  Items are identified by id; lw is the linkedWith     *)
(* relation of config.chart.items.                                         *)
(***************************************************************************)
SelItems == {"A", "B", "C"}
SelOrder == <<"A", "B", "C">>

generateEmptyData(optCells, optItems) ==
  [ isSelecting |-> FALSE, pointerState |-> "up", targetType |-> "",
    initialPosition |-> [x |-> 0, y |-> 0], currentPosition |-> [x |-> 0, y |-> 0],
    selectionArea |-> [x |-> 0, y |-> 0, width |-> 0, height |-> 0],
    ctrlKey |-> FALSE, cells |-> optCells, items |-> optItems ]

getItemsUnderSelectionArea == << >>

\* a selection area anchored at the initial position, whatever the direction
getSelectionAreaFromInitial(pd) ==
  [ x |-> pd.initialPosition.x,
    width |-> pd.currentPosition.x - pd.initialPosition.x,
    y |-> pd.initialPosition.y,
    height |-> pd.currentPosition.y - pd.initialPosition.y ]

getSelectionArea(pd) ==
  LET initial == pd.initialPosition
      current == pd.currentPosition
      width == current.x - initial.x
      height == current.y - initial.y
  IN [ x |-> IF width >= 0 THEN initial.x ELSE current.x,
       width |-> IF width >= 0 THEN width ELSE Abs(width),
       y |-> IF height >= 0 THEN initial.y ELSE current.y,
       height |-> IF height >= 0 THEN height ELSE Abs(height) ]

\* collectLinkedItems(item, current) at call depth depth; ok is FALSE when the
\* recursion exceeds the call stack (MaxStack frames) and the call throws
RECURSIVE collectLinkedItems(_, _, _, _)
RECURSIVE collectLinkedLoop(_, _, _, _)
collectLinkedItems(lw, item, current, depth) ==
  IF depth > MaxStack
  THEN [ok |-> FALSE, cur |-> current]
  ELSE collectLinkedLoop(lw, lw[item], current, depth)

\* the for-of loop of collectLinkedItems over the remaining linked ids
collectLinkedLoop(lw, links, current, depth) ==
  IF links = << >>
  THEN [ok |-> TRUE, cur |-> current]
  ELSE LET linkedItem == Head(links)
           r == collectLinkedItems(lw, linkedItem, Append(current, linkedItem), depth + 1)
       IN IF r.ok THEN collectLinkedLoop(lw, Tail(links), r.cur, depth) ELSE r

\* [...new Set(seq).values()]: the first occurrence of every element, in order
RECURSIVE SetValues(_)
SetValues(seq) ==
  IF seq = << >>
  THEN << >>
  ELSE LET init == SetValues(SubSeq(seq, 1, Len(seq) - 1))
           x == seq[Len(seq)]
       IN IF \E k \in DOMAIN init : init[k] = x THEN init ELSE Append(init, x)

\* getSelected(item) with sel = data.selected[ITEM]; ok as for collectLinkedItems
getSelected(lw, sel, item, ctrlKey) ==
  LET linked == collectLinkedItems(lw, item, << item >>, 1)
  IN IF \E k \in DOMAIN sel : sel[k] = item
     THEN [ok |-> TRUE, cur |-> sel]
     ELSE IF ctrlKey
          THEN [ok |-> linked.ok, cur |-> SetValues(sel \o linked.cur)]
          ELSE linked

\* The Selection plugin's view of the store: sel is data.selected[ITEM], flags
\* the selected flag of every item, data the other fields of this.data; threw
\* records that the handler ended with an exception.
SelStore(sel, flags, data) ==
  [sel |-> sel, flags |-> flags, data |-> data, threw |-> FALSE, seen |-> << >>]

\* a cell drag that only records the swept area and leaves the selection
selectCellsKeepSelection(T, pd) ==
  [T EXCEPT !.data = [T.data EXCEPT !.isSelecting = TRUE,
                                    !.selectionArea = getSelectionArea(pd)]]

selectCells(T, pd) ==
  LET d1 == [T.data EXCEPT !.isSelecting = TRUE, !.selectionArea = getSelectionArea(pd)]
      selectingItems == getItemsUnderSelectionArea
  IN IF Len(selectingItems) = 0
     THEN [T EXCEPT !.data = d1, !.flags = [i \in SelItems |-> FALSE], !.sel = << >>,
                    !.seen = Append(@, [i \in SelItems |-> FALSE])]
     ELSE [T EXCEPT !.data = d1]

\* the updates selectItems chains on the multi: every flag cleared, then the
\* flag of each selected item set, in the order of sel; the result is the
\* sequence of store states these updates produce
RECURSIVE selectItemsSteps(_, _)
selectItemsSteps(flags, sel) ==
  IF sel = << >>
  THEN << [i \in SelItems |-> FALSE] >>
  ELSE LET before == selectItemsSteps(flags, SubSeq(sel, 1, Len(sel) - 1))
       IN Append(before, [before[Len(before)] EXCEPT ![sel[Len(sel)]] = TRUE])

\* multi.done(): the subscribers are notified once, of the state after the
\* last update of the batch
multiDone(steps) == << steps[Len(steps)] >>

\* notifications with every update applied on its own (state.update)
selectItemsNotifyEach(flags, sel) == selectItemsSteps(flags, sel)

\* what the subscribers are notified of by the multi update of selectItems
selectItemsNotify(flags, sel) == multiDone(selectItemsSteps(flags, sel))

\* the multi().update(...).done() of selectItems: one atomic store update
selectItemsCommit(flags, sel) ==
  LET steps == selectItemsSteps(flags, sel)
  IN steps[Len(steps)]

selectItems(lw, T, pd) ==
  LET d1 == [T.data EXCEPT !.isSelecting = FALSE,
                           !.selectionArea = getSelectionArea(pd),
                           !.currentPosition = pd.currentPosition,
                           !.initialPosition = pd.initialPosition]
      item == pd.targetData
      got == getSelected(lw, T.sel, item, pd.ctrlKey)
  IN IF got.ok
     THEN [T EXCEPT !.data = d1, !.sel = got.cur,
                    !.flags = selectItemsCommit(T.flags, got.cur),
                    !.seen = @ \o selectItemsNotify(T.flags, got.cur)]
     ELSE [T EXCEPT !.data = d1, !.threw = TRUE]

onPointerData(lw, T, pd) ==
  LET T1 == IF pd.isMoving /\ pd.targetType = "CELL" /\ T.data.cells
            THEN selectCells(T, pd)
            ELSE IF pd.isMoving /\ pd.targetType = "ITEM" /\ T.data.items
                 THEN selectItems(lw, T, pd)
                 ELSE IF ~pd.isMoving
                      THEN [T EXCEPT !.data.isSelecting = FALSE]
                      ELSE T
  IN IF T1.threw
     THEN T1
     ELSE [T1 EXCEPT !.data.ctrlKey = pd.ctrlKey,
                     !.data.pointerState = pd.pointerState,
                     !.data.targetType = pd.targetType]

(***************************************************************************)
(* Events of the ItemMovement plugin.                                      *)
(***************************************************************************)
CurStore == Store(items, movementState, msKeys, pluginItem, pluginMovement, ghostNodes)

SetStore(S) ==
  /\ items' = S.it
  /\ movementState' = S.ms
  /\ msKeys' = S.keys
  /\ pluginItem' = S.pItem
  /\ pluginMovement' = S.pMov
  /\ ghostNodes' = S.dom

Active(ms, i) ==
  i \in DOMAIN ms /\ (ms[i].moving \/ ms[i].resizing \/ ms[i].waiting)

InSeq(x, seq) == \E k \in DOMAIN seq : seq[k] = x

Remove(seq, x) == SelectSeq(seq, LAMBDA e : e # x)

Event(op, item, a, b) == [op |-> op, item |-> item, a |-> a, b |-> b]

mvStatic == << options, itemCfg, rowCfg, time, pointerXs, pointerYs, downAt, rendered,
              timerCap, minEnd >>

\* ItemAction(element, data) for the item: listeners are added unless the
\* plugin is neither moveable nor resizable
ActionCreate ==
  \E i \in rendered :
    /\ ~InSeq(i, listeners)
    /\ Truthy(options.moveable) \/ options.resizable
    /\ listeners' = Append(listeners, i)
    /\ last' = Event("create", i, FALSE, FALSE)
    /\ moveAt' = Undefined
    /\ UNCHANGED << mvStatic, items, movementState, msKeys, pluginItem,
                    pluginMovement, ghostNodes, timers, selVars, call >>

\* destroy(): the listeners of the item's action are removed
ActionDestroy ==
  \E i \in Items :
    /\ InSeq(i, listeners)
    /\ listeners' = Remove(listeners, i)
    /\ last' = Event("destroy", i, Active(movementState, i), FALSE)
    /\ moveAt' = Undefined
    /\ UNCHANGED << mvStatic, items, movementState, msKeys, pluginItem,
                    pluginMovement, ghostNodes, timers, selVars, call >>

\* pointerdown on the body of an item; a primary-button down starts a timer
PointerDownLabel ==
  \E i \in Items, at \in downAt, button \in Buttons :
    /\ InSeq(i, listeners)
    /\ button = 0 => Len(timers) < timerCap
    /\ SetStore(labelDown(CurStore, i, [x |-> at.x, y |-> at.y, button |-> button]))
    /\ timers' = IF button = 0
                 THEN Append(timers,
                             [item |-> i, x |-> at.x, y |-> at.y, released |-> FALSE])
                 ELSE timers
    /\ last' = Event("labelDown", i, button = 0, FALSE)
    /\ moveAt' = Undefined
    /\ UNCHANGED << mvStatic, listeners, selVars, call >>

\* the oldest pending timer fires (all timers have the same delay);
\* released: a pointerup has cancelled the wait the timer was started for
WaitTimerFires ==
  /\ timers # << >>
  /\ SetStore(labelDownTimeout(CurStore, Head(timers)))
  /\ timers' = Tail(timers)
  /\ last' = Event("timer", Head(timers).item,
                   Head(timers).released, movementState[Head(timers).item].moving)
  /\ moveAt' = Undefined
  /\ UNCHANGED << mvStatic, listeners, selVars, call >>

\* a pointerdown event reaches the listener of the resize handle.  The
\* listener is attached whatever the visibility of the handle: hiding the
\* handle of a non-resizable item keeps the pointer itself from hitting it,
\* not an event dispatched on it.
PointerDownResizer ==
  \E i \in Items, at \in downAt, button \in Buttons :
    /\ InSeq(i, listeners)
    /\ SetStore(resizerDown(CurStore, i, [x |-> at.x, y |-> at.y, button |-> button]))
    /\ last' = Event("resizerDown", i, button = 0, FALSE)
    /\ moveAt' = Undefined
    /\ UNCHANGED << mvStatic, listeners, timers, selVars, call >>

\* pointermove on the document (explored while every end time is at least
\* minEnd: with collision detection off an item shrinks without limit)
PointerMove ==
  \E x \in pointerXs, y \in pointerYs :
    /\ \A i \in Items : items[i].end >= minEnd
    /\ SetStore(dispatchMove(CurStore, listeners, [x |-> x, y |-> y, button |-> 0]))
    /\ last' = Event("move", "-",
                     \E i \in DOMAIN movementState : movementState[i].moving,
                     \E i \in DOMAIN movementState : movementState[i].resizing)
    /\ moveAt' = Def([x |-> x, y |-> y])
    /\ UNCHANGED << mvStatic, listeners, timers, selVars, call >>

\* pointerup on the document
PointerUp ==
  /\ SetStore(dispatchUp(CurStore, listeners))
  /\ timers' = [k \in DOMAIN timers |->
                  IF movementState'[timers[k].item].waiting
                  THEN timers[k]
                  ELSE [timers[k] EXCEPT !.released = TRUE]]
  /\ last' = Event("up", "-",
                   \E i \in Items : Active(movementState, i),
                   \E i \in Items : Active(movementState, i) /\ InSeq(i, listeners))
  /\ moveAt' = Undefined
  /\ UNCHANGED << mvStatic, listeners, selVars, call >>

(***************************************************************************)
(* Initial states.                                                         *)
(***************************************************************************)
Interval(s, e, r) == [start |-> s, end |-> e, rowId |-> r]

Time1 == [from |-> 0, to |-> MaxTime, leftGlobal |-> 0, timePerPixel |-> 1]
Time2 == [from |-> 1, to |-> MaxTime, leftGlobal |-> 1, timePerPixel |-> 2]
Time3 == [from |-> 1, to |-> MaxTime - 3, leftGlobal |-> 0, timePerPixel |-> 1]

\* two items with end > start that do not overlap when they share a row
Layout1 == ("I1" :> Interval(0, 3, "R1") @@ "I2" :> Interval(MaxTime - 3, MaxTime, "R1"))
Layout2 == ("I1" :> Interval(1, 4, "R1") @@ "I2" :> Interval(3, MaxTime, "R2"))

GhostOff == [defaultOptions EXCEPT !.ghostNode = FALSE]

SelIdle ==
  /\ selPoints = {[x |-> 0, y |-> 0]}
  /\ linkedWith = [i \in SelItems |-> << >>]
  /\ selected = << >>
  /\ itemSelected = [i \in SelItems |-> FALSE]
  /\ selData = generateEmptyData(TRUE, TRUE)
  /\ observed = << >>

MvFresh ==
  /\ movementState = << >>
  /\ msKeys = << >>
  /\ pluginItem = Undefined
  /\ pluginMovement = Undefined
  /\ ghostNodes = [i \in Items |-> 0]
  /\ listeners = SelectSeq(ItemOrder, LAMBDA i : i \in rendered)
  /\ timers = << >>
  /\ moveAt = Undefined

NoOverrides ==
  /\ itemCfg = [i \in Items |-> NoOverride]
  /\ rowCfg = [r \in Rows |-> NoRowOverride]

\* Drag geometry: item I1 is dragged and resized over the whole pointer range,
\* I2 is an obstacle; the plugin options and the time axis vary.
Configs ==
  { << GhostOff, Time1, Layout1 >>,
    << GhostOff, Time2, Layout1 >>,
    << GhostOff, Time1, Layout2 >>,
    << [GhostOff EXCEPT !.collisionDetection = FALSE], Time1, Layout1 >>,
    << [GhostOff EXCEPT !.outOfBorders = TRUE], Time3, Layout2 >>,
    << [GhostOff EXCEPT !.collisionDetection = FALSE, !.outOfBorders = TRUE],
       Time3, Layout2 >> }

Init ==
  /\ \E c \in Configs : options = c[1] /\ time = c[2] /\ items = c[3]
  /\ NoOverrides
  /\ pointerXs = GanttLeft .. (GanttLeft + MaxX)
  /\ pointerYs = GanttTop .. (GanttTop + MaxY)
  /\ downAt = {[x |-> GanttLeft, y |-> GanttTop]}
  /\ rendered = {"I1"}
  /\ timerCap = 1
  /\ minEnd = -MaxBelow
  /\ MvFresh
  /\ SelIdle
  /\ call = Undefined
  /\ last = Event("init", "-", FALSE, FALSE)

\* Drag lifecycle: both items have an action, several wait timers may be
\* pending, the pointer stays at one position.
InitLife ==
  /\ options = defaultOptions
  /\ time = Time1
  /\ items = Layout2
  /\ NoOverrides
  /\ pointerXs = {GanttLeft + 1}
  /\ pointerYs = {GanttTop}
  /\ downAt = {[x |-> GanttLeft + 1, y |-> GanttTop]}
  /\ rendered = Items
  /\ timerCap = MaxTimers
  /\ minEnd = -MaxBelow
  /\ MvFresh
  /\ SelIdle
  /\ call = Undefined
  /\ last = Event("init", "-", FALSE, FALSE)

Next ==
  \/ ActionCreate
  \/ ActionDestroy
  \/ PointerDownLabel
  \/ PointerDownResizer
  \/ WaitTimerFires
  \/ PointerMove
  \/ PointerUp

Spec == Init /\ [][Next]_vars

SpecLife == InitLife /\ [][Next]_vars

\* The scenario of the specification: I1 at [100, 200) and I2 at [240, 300)
\* in row R1, default options; the pointer proposes the starts 139, 140, 150.
ScenarioItems ==
  ("I1" :> Interval(100, 200, "R1") @@ "I2" :> Interval(240, 300, "R1"))

ScenarioStarts == {139, 140, 150}

InitScenario ==
  /\ options = defaultOptions
  /\ time = [from |-> 0, to |-> 400, leftGlobal |-> 0, timePerPixel |-> 1]
  /\ items = ScenarioItems
  /\ NoOverrides
  /\ pointerXs = {GanttLeft + t : t \in ScenarioStarts}
  /\ pointerYs = {GanttTop}
  /\ downAt = {[x |-> GanttLeft + 100, y |-> GanttTop]}
  /\ rendered = {"I1"}
  /\ timerCap = 1
  /\ minEnd = 200 - MaxShrink
  /\ MvFresh
  /\ SelIdle
  /\ call = Undefined
  /\ last = Event("init", "-", FALSE, FALSE)

SpecScenario == InitScenario /\ [][Next]_vars

(***************************************************************************)
(* Events of the Selection plugin.                                         *)
(***************************************************************************)
\* the data the TimelinePointer plugin publishes
PointerDatas ==
  { [ isMoving |-> mv, pointerState |-> IF mv THEN "move" ELSE "up",
      targetType |-> tt, targetData |-> it, ctrlKey |-> ck,
      initialPosition |-> p0, currentPosition |-> p1 ] :
      mv \in BOOLEAN, tt \in {"ITEM", "CELL", ""}, it \in SelItems, ck \in BOOLEAN,
      p0 \in selPoints, p1 \in selPoints }

\* config.plugin.TimelinePointer changes: the subscription runs onPointerData.
\* last.a: ctrl was held on the down event; last.b: the handler threw
PointerData ==
  \E pd \in PointerDatas :
    LET T == onPointerData(linkedWith, SelStore(selected, itemSelected, selData), pd)
    IN /\ pd.targetType # "ITEM" => pd.targetData = SelOrder[1]
       /\ selected' = T.sel
       /\ itemSelected' = T.flags
       /\ selData' = T.data
       /\ observed' = T.seen
       /\ last' = Event(IF pd.isMoving /\ pd.targetType = "CELL" /\ selData.cells
                        THEN "selectCells"
                        ELSE IF pd.isMoving /\ pd.targetType = "ITEM" /\ selData.items
                             THEN "selectItems" ELSE "pointer",
                        pd.targetData, pd.ctrlKey, T.threw)
       /\ UNCHANGED << mvVars, selPoints, linkedWith, call >>

\* every ordering of every subset of the items
Orderings(S) ==
  UNION { { seq \in [1 .. n -> S] : \A a, b \in 1 .. n : a # b => seq[a] # seq[b] } :
          n \in 0 .. Cardinality(S) }

\* link graphs with at most MaxLinks links in all, lists in any order
LinkGraphs ==
  { lw \in [SelItems -> Orderings(SelItems)] :
      Len(lw["A"]) + Len(lw["B"]) + Len(lw["C"]) <= MaxLinks }

MvIdle ==
  /\ options = defaultOptions
  /\ time = Time1
  /\ items = Layout1
  /\ NoOverrides
  /\ pointerXs = {GanttLeft}
  /\ pointerYs = {GanttTop}
  /\ downAt = {[x |-> GanttLeft, y |-> GanttTop]}
  /\ rendered = {}
  /\ timerCap = 0
  /\ minEnd = 0
  /\ MvFresh

InitSel ==
  /\ MvIdle
  /\ selPoints = {[x |-> 0, y |-> 0]}
  /\ linkedWith \in LinkGraphs
  /\ selected = << >>
  /\ itemSelected = [i \in SelItems |-> FALSE]
  /\ selData = generateEmptyData(TRUE, TRUE)
  /\ observed = << >>
  /\ call = Undefined
  /\ last = Event("init", "-", FALSE, FALSE)

NextSel == PointerData

SpecSel == InitSel /\ [][NextSel]_vars

(***************************************************************************)
(* Properties of the ItemMovement plugin.                                  *)
(***************************************************************************)
Idle(m) == ~m.moving /\ ~m.resizing /\ ~m.waiting

\* C1: the timer of a gesture whose pointer-up has already arrived never
\* turns the item's moving flag on when it fires, whatever happened in between.
C1_ReleasedTimerNeverMoves ==
  (last.op = "timer" /\ last.a /\ ~last.b) => ~movementState[last.item].moving

\* C2: after a pointer-up processed while some item was moving, resizing or
\* waiting, every record of the table is all-false and no ghost is left.
C2_UpResetsEveryRecord ==
  (last.op = "up" /\ last.a) =>
     \A i \in DOMAIN movementState :
        Idle(movementState[i]) /\ ~IsDef(movementState[i].ghost)

\* a move event handled for I1 in the scenario state, with the pointer
\* proposing the start time t
ScenarioMove(t) ==
  /\ items = ScenarioItems
  /\ "I1" \in DOMAIN movementState
  /\ movementState["I1"].moving
  /\ InSeq("I1", listeners)
  /\ last'.op = "move"
  /\ movementState'["I1"].ghost = Def([left |-> t, top |-> 0])

\* C3 as stated: in the scenario a move proposing [150, 250) is rejected and
\* a move proposing [140, 240) is accepted, I1's start becoming 140.
C3_ScenarioAsStated ==
  [][ /\ ScenarioMove(150) => items' = items
      /\ ScenarioMove(140) => items'["I1"].start = 140 ]_vars

\* C3 amended: in the scenario the moves proposing [150, 250) and [140, 240)
\* are both rejected (the end 240 touches I2's start, and boundaries compare
\* inclusively); the move proposing [139, 239) is accepted, I1's start
\* becoming 139.
C3_ScenarioBoundaryRejected ==
  [][ /\ ScenarioMove(150) => items' = items
      /\ ScenarioMove(140) => items' = items
      /\ ScenarioMove(139) => items'["I1"].start = 139 ]_vars

\* the move proposing [140, 240) has been handled and left the scenario as it was
C3_Witness ==
  /\ last.op = "move"
  /\ items = ScenarioItems
  /\ "I1" \in DOMAIN movementState
  /\ movementState["I1"].moving
  /\ movementState["I1"].ghost = Def([left |-> 140, top |-> 0])

\* C4: every item's interval satisfies end > start in every reachable state.
C4_EndAfterStart ==
  \A i \in Items : items[i].end > items[i].start

\* half-open intervals [start, end) of two items intersect
Overlap(a, b) == a.start < b.end /\ b.start < a.end

\* C5: with collision detection on (default snap functions, row caches in
\* sync) no two items of one row overlap.
C5_NoOverlapInRow ==
  options.collisionDetection =>
     \A i, j \in Items :
        (i # j /\ items[i].rowId = items[j].rowId) => ~Overlap(items[i], items[j])

\* a move event has committed a change of I1 while both items share a row
C5_Witness ==
  /\ options.collisionDetection
  /\ last.op = "move"
  /\ items = [Layout1 EXCEPT !["I1"] = Interval(1, 3, "R1")]

(***************************************************************************)
(* Properties of the Selection plugin.                                     *)
(***************************************************************************)
\* items reachable from the items of S through lw, S included
RECURSIVE ReachFrom(_, _)
ReachFrom(lw, S) ==
  LET T == S \cup UNION { {lw[i][k] : k \in DOMAIN lw[i]} : i \in S }
  IN IF T = S THEN S ELSE ReachFrom(lw, T)

\* the link closure of one item
Closure(lw, item) == ReachFrom(lw, {item})

SetOf(seq) == {seq[k] : k \in DOMAIN seq}

Count(seq, x) == Cardinality({k \in DOMAIN seq : seq[k] = x})

NoDuplicates(seq) == \A x \in SetOf(seq) : Count(seq, x) = 1

\* a link graph has a cycle through an item reachable from item
CyclicFrom(lw, item) ==
  \E j \in Closure(lw, item) :
     \E k \in DOMAIN lw[j] : j \in Closure(lw, lw[j][k])

\* C6: link expansion terminates on every link graph, cycles included: every
\* item-targeted gesture finishes and produces a selection.
C6_LinkExpansionTerminates ==
  last.op = "selectItems" => ~last.b

\* C7: after an item-targeted gesture that finished, every item of the link
\* closure of the target is in the selection exactly once.
C7_LinkSetExactlyOnce ==
  (last.op = "selectItems" /\ ~last.b) =>
     \A j \in Closure(linkedWith, last.item) : Count(selected, j) = 1

\* C8: selecting X and then Y with ctrl held (both gestures finishing) leaves
\* exactly the closure of X united with the closure of Y selected, without
\* duplicates and without losing an item of the previous selection.
C8_CtrlIsStrictUnion ==
  [][ ( /\ last.op = "selectItems" /\ ~last.a /\ ~last.b
        /\ last'.op = "selectItems" /\ last'.a /\ ~last'.b )
      => /\ SetOf(selected') =
              Closure(linkedWith, last.item) \cup Closure(linkedWith, last'.item)
         /\ NoDuplicates(selected')
         /\ SetOf(selected) \subseteq SetOf(selected') ]_vars

\* C9: after an item-targeted gesture without ctrl (that finished) the
\* selected set is exactly the link set of the target, whatever was selected.
C9_PlainSelectReplaces ==
  (last.op = "selectItems" /\ ~last.a /\ ~last.b) =>
     SetOf(selected) = Closure(linkedWith, last.item)

(***************************************************************************)
(* The collision validator as a function of its inputs.                    *)
(***************************************************************************)
CallTimes == 0 .. MaxCallTime

\* what isCollision is called with: the two options it reads, the cache of
\* the row (the moved item's own entry, possibly stale, and at most one other
\* item, each with end > start), and the proposed interval in either order
CallInputs ==
  { [ opts |-> [defaultOptions EXCEPT !.collisionDetection = cd, !.outOfBorders = oob],
      tm |-> [from |-> 1, to |-> MaxCallTime - 1, leftGlobal |-> 0, timePerPixel |-> 1],
      cache |-> own \cup other, itemId |-> "I1", start |-> s, end |-> e ] :
      cd \in BOOLEAN, oob \in BOOLEAN,
      own \in { {}, {[id |-> "I1", start |-> 0, end |-> MaxCallTime]} },
      other \in { {} } \cup
                { {[id |-> "I2", start |-> p[1], end |-> p[2]]} :
                    p \in {q \in CallTimes \X CallTimes : q[2] > q[1]} },
      s \in CallTimes, e \in CallTimes }

CallIsCollision ==
  \E c \in CallInputs :
    /\ call' = Def([ in |-> c,
                     result |-> isCollision(c.opts, c.tm, c.cache, c.itemId,
                                            c.start, c.end) ])
    /\ last' = Event("isCollision", c.itemId, FALSE, FALSE)
    /\ UNCHANGED << mvVars, selVars >>

InitCall ==
  /\ MvIdle
  /\ SelIdle
  /\ call = Undefined
  /\ last = Event("init", "-", FALSE, FALSE)

NextCall == CallIsCollision

SpecCall == InitCall /\ [][NextCall]_vars

\* the closed intervals [s1, e1] and [s2, e2] share at least one point
SharePoint(s1, e1, s2, e2) ==
  \E t \in CallTimes : s1 <= t /\ t <= e1 /\ s2 <= t /\ t <= e2

\* the reference of claim C10
CollidesReference(c) ==
  IF ~c.opts.collisionDetection
  THEN FALSE
  ELSE IF c.opts.outOfBorders /\ (c.start < c.tm.from \/ c.end > c.tm.to)
       THEN TRUE
       ELSE IF Abs(c.end - c.start) <= 1
            THEN TRUE
            ELSE \E x \in c.cache :
                   x.id # c.itemId /\ SharePoint(x.start, x.end, c.start, c.end)

\* C10 as stated: isCollision equals the reference for every input.
C10_EqualsReferenceEveryInput ==
  IsDef(call) => Val(call).result = CollidesReference(Val(call).in)

\* C10 amended: isCollision equals the reference for every input whose
\* proposed interval is in order (start <= end).
C10_EqualsReferenceOrdered ==
  (IsDef(call) /\ Val(call).in.start <= Val(call).in.end) =>
     Val(call).result = CollidesReference(Val(call).in)

\* a proposed interval that strictly contains the other item of the row and
\* lies inside the moved item's own cache entry has been found to collide
C10_Witness ==
  /\ IsDef(call)
  /\ Val(call).result
  /\ Val(call).in.opts.collisionDetection
  /\ ~Val(call).in.opts.outOfBorders
  /\ \E x \in Val(call).in.cache : x.id = "I1"
  /\ \E x \in Val(call).in.cache :
        /\ x.id = "I2"
        /\ Val(call).in.start < x.start
        /\ x.end < Val(call).in.end

(***************************************************************************)
(* The collision validator applied to the two items of one row, each       *)
(* checked at its own interval.                                            *)
(***************************************************************************)
\* two items of row R1 with end > start, the two options isCollision reads
PairInputs ==
  { [ opts |-> [defaultOptions EXCEPT !.collisionDetection = cd, !.outOfBorders = oob],
      tm |-> [from |-> 1, to |-> MaxCallTime - 1, leftGlobal |-> 0, timePerPixel |-> 1],
      it |-> ("I1" :> Interval(a[1], a[2], "R1") @@ "I2" :> Interval(b[1], b[2], "R1")) ] :
      cd \in BOOLEAN, oob \in BOOLEAN,
      a \in {q \in CallTimes \X CallTimes : q[2] > q[1]},
      b \in {q \in CallTimes \X CallTimes : q[2] > q[1]} }

CallIsCollisionPair ==
  \E c \in PairInputs :
    /\ call' = Def([ in |-> c,
                     result |-> [i \in Items |->
                        isCollision(c.opts, c.tm, rowItems(c.it, "R1"), i,
                                    c.it[i].start, c.it[i].end)] ])
    /\ last' = Event("isCollisionPair", "-", FALSE, FALSE)
    /\ UNCHANGED << mvVars, selVars >>

NextPair == CallIsCollisionPair

SpecPair == InitCall /\ [][NextPair]_vars

\* closed intervals of two items share a point
Touch(a, b) == a.start <= b.end /\ b.start <= a.end

\* the pair was checked with collision detection on and border rejection off
PairChecked ==
  /\ IsDef(call)
  /\ Val(call).in.opts.collisionDetection
  /\ ~Val(call).in.opts.outOfBorders

\* C11 as stated: two items of a row whose intervals [start, end) do not
\* overlap are both found free of collision at their own intervals; when the
\* intervals overlap (boundaries inclusive) both are found to collide.
C11_PairAsStated ==
  PairChecked =>
    LET it == Val(call).in.it
        res == Val(call).result
    IN /\ ~Overlap(it["I1"], it["I2"]) => (~res["I1"] /\ ~res["I2"])
       /\ Touch(it["I1"], it["I2"]) => (res["I1"] /\ res["I2"])

\* C11 amended: two items of a row that are both longer than one unit and
\* whose closed intervals [start, end] share no point are both found free of
\* collision at their own intervals; when the closed intervals share a point
\* (touching boundaries included) both are found to collide.
C11_PairClosedIntervals ==
  PairChecked =>
    LET it == Val(call).in.it
        res == Val(call).result
    IN /\ ( /\ ~Touch(it["I1"], it["I2"])
            /\ \A i \in Items : it[i].end - it[i].start > 1 )
          => (~res["I1"] /\ ~res["I2"])
       /\ Touch(it["I1"], it["I2"]) => (res["I1"] /\ res["I2"])

\* two items that only touch at a boundary have been checked, and two items
\* longer than one unit and apart have been checked
C11_Witness ==
  /\ PairChecked
  /\ LET it == Val(call).in.it
     IN /\ it["I1"].end - it["I1"].start > 1
        /\ it["I2"].end - it["I2"].start > 1
        /\ it["I1"].end = it["I2"].start
        /\ Val(call).result["I1"] /\ Val(call).result["I2"]

(***************************************************************************)
(* The selection rectangle as a function of the two corner points.         *)
(***************************************************************************)
AreaPoints == { [x |-> px, y |-> py] : px \in 0 .. MaxPoint, py \in 0 .. MaxPoint }

\* getSelectionArea for a drag from P to Q and for the drag from Q to P
CallGetSelectionArea ==
  \E P \in AreaPoints, Q \in AreaPoints :
    /\ call' = Def([ P |-> P, Q |-> Q,
                     area |-> getSelectionArea([initialPosition |-> P,
                                                currentPosition |-> Q]),
                     back |-> getSelectionArea([initialPosition |-> Q,
                                                currentPosition |-> P]) ])
    /\ last' = Event("getSelectionArea", "-", FALSE, FALSE)
    /\ UNCHANGED << mvVars, selVars >>

NextArea == CallGetSelectionArea

SpecArea == InitCall /\ [][NextArea]_vars

Min(a, b) == IF a <= b THEN a ELSE b

\* C12: the area of a drag from P to Q equals the area of the drag from Q to
\* P, with x = min(P.x, Q.x), y = min(P.y, Q.y), width = |P.x - Q.x| and
\* height = |P.y - Q.y|, so width and height are never negative.
C12_AreaDirectionFree ==
  IsDef(call) =>
    LET c == Val(call)
    IN /\ c.area = c.back
       /\ c.area = [ x |-> Min(c.P.x, c.Q.x), y |-> Min(c.P.y, c.Q.y),
                     width |-> Abs(c.P.x - c.Q.x), height |-> Abs(c.P.y - c.Q.y) ]
       /\ c.area.width >= 0 /\ c.area.height >= 0

\* a drag towards the upper left (current left of and above initial) has
\* been evaluated
C12_Witness ==
  /\ IsDef(call)
  /\ Val(call).Q.x < Val(call).P.x
  /\ Val(call).Q.y < Val(call).P.y
  /\ Val(call).area.width > 0

(***************************************************************************)
(* Properties of the selection commit.                                     *)
(***************************************************************************)
\* the selected flags flags mark exactly the items of the list sel
FlagsMatch(flags, sel) == \A i \in SelItems : flags[i] <=> (i \in SetOf(sel))

\* C13: an item-targeted gesture that finished notified the subscribers of
\* the item flags once, of a state in which an item's selected flag is true
\* exactly when the item is in the new selection; no state with only part of
\* the new selection was seen, and the stored flags are that same state.
C13_CommitAtomic ==
  (last.op = "selectItems" /\ ~last.b) =>
     /\ Len(observed) = 1
     /\ \A k \in DOMAIN observed : FlagsMatch(observed[k], selected)
     /\ FlagsMatch(itemSelected, selected)

\* a gesture has replaced a selection of two or more items by a different
\* selection of two or more items
C13_Witness ==
  /\ last.op = "selectItems" /\ ~last.b
  /\ Cardinality(SetOf(selected)) >= 2
  /\ observed # << >>
  /\ \E i \in SelItems : i \notin SetOf(selected)

(***************************************************************************)
(* Properties of one pointermove event.  The event is the step to a state  *)
(* with last.op = "move"; its position is moveAt in the new state.         *)
(***************************************************************************)
\* the action of item i handles document events and i has a movement record
Handles(i) == InSeq(i, listeners) /\ i \in DOMAIN movementState

\* the time under the pointer at horizontal position x, for item i
LeftMs(i, x) ==
  time.leftGlobal + (x - Val(movementState[i].ganttLeft)) * time.timePerPixel

\* the delta a move of item i to x would commit
MoveDelta(i, x) ==
  snapStart(getSnapStart(options, itemCfg[i]), items[i].start,
            LeftMs(i, x) - items[i].start) - items[i].start

\* the delta a resize of item i to x would commit
ResizeDelta(i, x) ==
  snapEnd(getSnapEnd(options, itemCfg[i]), items[i].end,
          LeftMs(i, x) - items[i].end) - 1 - items[i].end

\* the validator's verdict on the interval a move of i to x proposes
MoveRejected(i, x) ==
  isCollision(options, time, rowItems(items, items[i].rowId), i,
              items[i].start + MoveDelta(i, x), items[i].end + MoveDelta(i, x))

\* the validator's verdict on the interval a resize of i to x proposes
ResizeRejected(i, x) ==
  isCollision(options, time, rowItems(items, items[i].rowId), i,
              items[i].start, items[i].end + ResizeDelta(i, x))

Flags(m) == << m.moving, m.resizing, m.waiting >>

\* the step is a pointermove handled by the action of item i
MoveEventFor(i) == last'.op = "move" /\ Handles(i) /\ IsDef(moveAt')

\* C14: a move or resize event whose proposed interval the validator rejects
\* leaves the item's start and end unchanged, changes no flag of its movement
\* record and publishes no other record; the same event with a placement the
\* validator accepts commits the proposed start.
C14_RejectedLeavesInterval ==
  [][ \A i \in Items :
        MoveEventFor(i) =>
          LET x == Val(moveAt').x
              m == movementState[i]
          IN /\ ( \/ m.moving /\ MoveRejected(i, x)
                  \/ ~m.moving /\ m.resizing /\ ResizeRejected(i, x) )
                => /\ items'[i].start = items[i].start
                   /\ items'[i].end = items[i].end
                   /\ Flags(movementState'[i]) = Flags(m)
                   /\ DOMAIN movementState' = DOMAIN movementState
                   /\ pluginMovement' = pluginMovement
             /\ ( /\ m.moving /\ ~MoveRejected(i, x) /\ MoveDelta(i, x) # 0
                  /\ isMoveable(options, itemCfg[i], rowCfg[items[i].rowId]) = MvTrue )
                => items'[i].start = items[i].start + MoveDelta(i, x) ]_vars

\* a move of I1 onto I2 has been handled and rejected: I1 is still moving and
\* still where it was
C14_Witness ==
  /\ last.op = "move"
  /\ options.collisionDetection
  /\ time = Time1
  /\ items = Layout1
  /\ "I1" \in DOMAIN movementState
  /\ movementState["I1"].moving
  /\ moveAt = Def([x |-> GanttLeft + 3, y |-> GanttTop])

(***************************************************************************)
(* Move and resize policy: the moveable / resizable settings of the        *)
(* plugin, of item I1 and of the rows vary; I1 is dragged over both rows.  *)
(***************************************************************************)
\* options.moveable, I1's own moveable, the moveable of R1 and of R2;
\* options.resizable, I1's own resizable, the resizable of R1
Policy(om, im, r1m, r2m, ores, ires, r1res) ==
  [ options |-> [GhostOff EXCEPT !.moveable = om, !.resizable = ores],
    itemCfg |-> [i \in Items |->
                   IF i = "I1"
                   THEN [NoOverride EXCEPT !.moveable = im, !.resizable = ires]
                   ELSE NoOverride],
    rowCfg |-> ("R1" :> [moveable |-> r1m, resizable |-> r1res] @@
                "R2" :> [moveable |-> r2m, resizable |-> "absent"]) ]

MovePolicies ==
  { Policy(MvTrue, MvAbsent, MvAbsent, MvAbsent, TRUE, "absent", "absent"),
    Policy(MvTrue, MvRows({"R1"}), MvAbsent, MvAbsent, TRUE, "absent", "absent"),
    Policy(MvTrue, MvRows({"R2"}), MvAbsent, MvAbsent, TRUE, "absent", "absent"),
    Policy(MvTrue, MvRows({"R1", "R2"}), MvAbsent, MvAbsent, TRUE, "absent", "absent"),
    Policy(MvTrue, MvX, MvAbsent, MvAbsent, TRUE, "absent", "absent"),
    Policy(MvTrue, MvFalse, MvAbsent, MvAbsent, TRUE, "absent", "absent"),
    Policy(MvX, MvAbsent, MvAbsent, MvAbsent, TRUE, "absent", "absent"),
    Policy(MvTrue, MvRows({"R1"}), MvTrue, MvAbsent, TRUE, "absent", "absent"),
    Policy(MvTrue, MvAbsent, MvAbsent, MvFalse, TRUE, "absent", "absent"),
    Policy(MvTrue, MvAbsent, MvFalse, MvAbsent, TRUE, "absent", "absent") }

ResizePolicies ==
  { Policy(MvTrue, MvAbsent, MvAbsent, MvAbsent, FALSE, "absent", "absent"),
    Policy(MvTrue, MvAbsent, MvAbsent, MvAbsent, TRUE, "false", "absent"),
    Policy(MvTrue, MvAbsent, MvAbsent, MvAbsent, TRUE, "absent", "false"),
    Policy(MvTrue, MvAbsent, MvAbsent, MvAbsent, TRUE, "false", "true") }

InitPolicy ==
  /\ \E c \in MovePolicies \cup ResizePolicies :
        options = c.options /\ itemCfg = c.itemCfg /\ rowCfg = c.rowCfg
  /\ time = Time1
  /\ items = Layout2
  /\ pointerXs = GanttLeft .. (GanttLeft + MaxX)
  /\ pointerYs = GanttTop .. (GanttTop + MaxY)
  /\ downAt = {[x |-> GanttLeft, y |-> GanttTop]}
  /\ rendered = {"I1"}
  /\ timerCap = 1
  /\ minEnd = -MaxBelow
  /\ MvFresh
  /\ SelIdle
  /\ call = Undefined
  /\ last = Event("init", "-", FALSE, FALSE)

SpecPolicy == InitPolicy /\ [][Next]_vars

(***************************************************************************)
(* Properties of the row reassignment.                                     *)
(***************************************************************************)
\* the row under the pointer at vertical position y: the last visible row
\* whose top is at or above the pointer, the first row if there is none
DestRow(i, y) ==
  LET top == y - Val(movementState[i].ganttTop)
      at == {k \in DOMAIN visibleRows : visibleRows[k].top <= top}
  IN IF at = {}
     THEN visibleRows[1].id
     ELSE visibleRows[CHOOSE k \in at : \A j \in at : j <= k].id

\* the moveable setting of item i: its own, or the plugin's when it has none
ItemSetting(i) ==
  IF itemCfg[i].moveable.tag # "absent" THEN itemCfg[i].moveable ELSE options.moveable

\* the item's moveable setting permits the row dest
ItemPermits(i, dest) ==
  \/ ItemSetting(i).tag = "true"
  \/ ItemSetting(i).tag = "rows" /\ dest \in ItemSetting(i).rows

\* the row dest is not flagged non-moveable
DestRowOK(dest) == rowCfg[dest].moveable.tag = "absent" \/ Truthy(rowCfg[dest].moveable)

\* the validator's verdict on item i in row dest at the interval the item
\* has after the event
DestRejected(i, dest) ==
  isCollision(options, time, rowItems(items', dest), i, items'[i].start, items'[i].end)

\* the three conditions of a row reassignment
RowAllowed(i, dest) == ItemPermits(i, dest) /\ DestRowOK(dest) /\ ~DestRejected(i, dest)

\* the event makes a time move of item i to x
TimeAttempted(i, x) ==
  LET moveable == isMoveable(options, itemCfg[i], rowCfg[items[i].rowId])
  IN /\ \/ moveable.tag \in {"true", "x"}
        \/ moveable.tag = "rows" /\ items[i].rowId \in moveable.rows
     /\ MoveDelta(i, x) # 0

\* C15: in one move event a row reassignment that is disallowed (allow-list,
\* non-moveable destination row, collision in the destination row) leaves the
\* row unchanged and a time change the validator accepts is still committed;
\* a time change the validator rejects does not stop an allowed reassignment.
C15_IndependentDecisions ==
  [][ \A i \in Items :
        (MoveEventFor(i) /\ movementState[i].moving) =>
          LET x == Val(moveAt').x
              dest == DestRow(i, Val(moveAt').y)
          IN /\ (dest # items[i].rowId /\ ~RowAllowed(i, dest))
                => /\ items'[i].rowId = items[i].rowId
                   /\ (TimeAttempted(i, x) /\ ~MoveRejected(i, x))
                      => items'[i].start = items[i].start + MoveDelta(i, x)
             /\ ( /\ dest # items[i].rowId /\ RowAllowed(i, dest)
                  /\ TimeAttempted(i, x) /\ MoveRejected(i, x) )
                => /\ items'[i].rowId = dest
                   /\ items'[i].start = items[i].start
                   /\ items'[i].end = items[i].end ]_vars

\* C18: a row reassignment is committed only if the item's moveable setting
\* permits the destination row, the destination row is not flagged
\* non-moveable and the validator reports no overlap in the destination row;
\* an item with an allow-list never moves to a row outside the list.
C18_RowChangeOnlyIfAllowed ==
  [][ \A i \in Items :
        (last'.op = "move" /\ items'[i].rowId # items[i].rowId)
          => RowAllowed(i, items'[i].rowId) ]_vars

(***************************************************************************)
(* Properties of the movement records.                                     *)
(***************************************************************************)
\* C16: in every reachable state at most one of the flags moving, resizing
\* and waiting of an item's movement record is true.
C16_OnePhase ==
  \A i \in DOMAIN movementState :
     LET m == movementState[i]
     IN /\ ~(m.moving /\ m.waiting)
        /\ ~(m.moving /\ m.resizing)
        /\ ~(m.resizing /\ m.waiting)

\* C17: after any pointer-up that some action handled, every record of the
\* table is all-false and has no ghost, also a record whose own item's action
\* no longer listens.
C17_AnyUpResetsAll ==
  (last.op = "up" /\ listeners # << >>) =>
     \A i \in DOMAIN movementState :
        Idle(movementState[i]) /\ ~IsDef(movementState[i].ghost)

(***************************************************************************)
(* Snapping: the plugin's and item I1's own snap functions vary between    *)
(* the default one and a quantising one.                                   *)
(***************************************************************************)
\* << options.snapStart / snapEnd, I1's own snapStart / snapEnd >>
SnapConfigs ==
  { << "default", "none" >>, << "grid", "none" >>,
    << "default", "grid" >>, << "grid", "default" >> }

InitSnap ==
  /\ \E c \in SnapConfigs, t \in {Time1, Time2} :
        /\ options = [GhostOff EXCEPT !.snap = c[1]]
        /\ itemCfg = [i \in Items |->
                        IF i = "I1" THEN [NoOverride EXCEPT !.snap = c[2]] ELSE NoOverride]
        /\ time = t
  /\ rowCfg = [r \in Rows |-> NoRowOverride]
  /\ items = Layout2
  /\ pointerXs = GanttLeft .. (GanttLeft + MaxX)
  /\ pointerYs = {GanttTop}
  /\ downAt = {[x |-> GanttLeft, y |-> GanttTop]}
  /\ rendered = {"I1"}
  /\ timerCap = 1
  /\ minEnd = -MaxBelow
  /\ MvFresh
  /\ SelIdle
  /\ call = Undefined
  /\ last = Event("init", "-", FALSE, FALSE)

SpecSnap == InitSnap /\ [][Next]_vars

\* the snap function in force for item i: its own if it has one
SnapOf(i) == IF itemCfg[i].snap # "none" THEN itemCfg[i].snap ELSE options.snap

\* C19: when a move event changes the time of a moving item, the committed
\* start is snapStart(currentStart, rawDelta) with the item's own snap
\* function if it has one and the plugin's otherwise, and the committed end
\* is snapEnd(currentEnd, d) - 1 with d = newStart - currentStart.
C19_CommittedSnap ==
  [][ \A i \in Items :
        ( /\ MoveEventFor(i)
          /\ movementState[i].moving
          /\ items'[i].start # items[i].start \/ items'[i].end # items[i].end )
        => LET raw == LeftMs(i, Val(moveAt').x) - items[i].start
               newStart == snapStart(SnapOf(i), items[i].start, raw)
               d == newStart - items[i].start
           IN /\ items'[i].start = newStart
              /\ items'[i].end = snapEnd(SnapOf(i), items[i].end, d) - 1 ]_vars

\* a move has been committed with a delta that differs from the raw delta:
\* I1 has its own quantising snap function, the plugin has the default one,
\* and I1 starts before the time under the pointer
C19_Witness ==
  /\ last.op = "move" /\ last.a
  /\ options.snap = "default"
  /\ itemCfg["I1"].snap = "grid"
  /\ items["I1"].start # Layout2["I1"].start
  /\ "I1" \in DOMAIN movementState
  /\ IsDef(moveAt)
  /\ LeftMs("I1", Val(moveAt).x) > items["I1"].start

C21_ResizeChangesOnlyEnd ==
  [][ \A i \in Items :
        (MoveEventFor(i) /\ movementState[i].resizing /\ SnapOf(i) = "default")
        => /\ items'[i].start = items[i].start
           /\ items'[i].rowId = items[i].rowId ]_vars

(***************************************************************************)
(* The row under the pointer, for every list of visible rows ordered by    *)
(* top offset and every vertical position.                                 *)
(***************************************************************************)
RowNames == << "R1", "R2", "R3", "R4" >>

\* lists of 1 .. MaxRows visible rows with tops in 0 .. MaxTop, in the order
\* of their tops
RowLists ==
  UNION { { [k \in 1 .. n |-> [id |-> RowNames[k], top |-> tops[k]]] :
              tops \in { t \in [1 .. n -> 0 .. MaxTop] :
                           \A a, b \in 1 .. n : a < b => t[a] <= t[b] } } :
          n \in 1 .. MaxRows }

\* the row documentMove takes as the candidate target: movementY's index,
\* corrected, looked up in the list
CallMovementY ==
  \E rows \in RowLists, top \in -1 .. (MaxTop + 1) :
    LET index == movementYLoop(rows, top, 0)
        newRow == rows[visibleRowsIndex(rows, index) + 1]
    IN /\ call' = Def([rows |-> rows, top |-> top, index |-> index, newRow |-> newRow])
       /\ UNCHANGED << mvVars, selVars, last >>

NextRows == CallMovementY

SpecRows == InitCall /\ [][NextRows]_vars

\* C22: for a non-empty list of visible rows ordered by top offset and any
\* vertical pointer position, the candidate target row is the last row whose
\* top offset is at or above the pointer; it is the first row when the
\* pointer is above every row and the last row when it is below every row.
C22_TargetRowIsLastAtOrAbove ==
  IsDef(call) =>
     LET rows == Val(call).rows
         top == Val(call).top
         at == {k \in DOMAIN rows : rows[k].top <= top}
     IN /\ at # {} => Val(call).newRow = rows[CHOOSE k \in at : \A j \in at : j <= k]
        /\ at = {} => Val(call).newRow = rows[1]
        /\ at = DOMAIN rows => Val(call).newRow = rows[Len(rows)]

\* the search has stepped back from a row below the pointer to a row that is
\* neither the first nor the last of the list
C22_Witness ==
  /\ IsDef(call)
  /\ Len(Val(call).rows) = 3
  /\ Val(call).newRow = Val(call).rows[2]
  /\ Val(call).rows[3].top > Val(call).top
  /\ Val(call).rows[1].top < Val(call).rows[2].top

\* the record is waiting for its timer: neither moving nor resizing
WaitingOnly(m) == m.waiting /\ ~m.moving /\ ~m.resizing

GhostPolicies ==
  { Policy(MvTrue, MvAbsent, MvAbsent, MvAbsent, TRUE, "absent", "absent"),
    Policy(MvTrue, MvX, MvAbsent, MvAbsent, TRUE, "absent", "absent"),
    Policy(MvTrue, MvRows({"R2"}), MvAbsent, MvAbsent, TRUE, "absent", "absent"),
    Policy(MvTrue, MvFalse, MvAbsent, MvAbsent, TRUE, "absent", "absent"),
    Policy(MvTrue, MvAbsent, MvFalse, MvAbsent, TRUE, "absent", "absent"),
    Policy(MvFalse, MvAbsent, MvAbsent, MvAbsent, TRUE, "absent", "absent"),
    Policy(MvTrue, MvRows({"R1", "R2"}), MvFalse, MvAbsent, TRUE, "absent", "absent"),
    Policy(MvTrue, MvX, MvTrue, MvAbsent, TRUE, "absent", "absent") }

InitGhost ==
  /\ \E c \in GhostPolicies :
        /\ options = [c.options EXCEPT !.ghostNode = TRUE]
        /\ itemCfg = c.itemCfg
        /\ rowCfg = c.rowCfg
  /\ time = Time1
  /\ items = Layout2
  /\ pointerXs = GanttLeft .. (GanttLeft + MaxX)
  /\ pointerYs = GanttTop .. (GanttTop + MaxY)
  /\ downAt = {[x |-> GanttLeft, y |-> GanttTop]}
  /\ rendered = {"I1"}
  /\ timerCap = 1
  /\ minEnd = -MaxBelow
  /\ MvFresh
  /\ SelIdle
  /\ call = Undefined
  /\ last = Event("init", "-", FALSE, FALSE)

SpecGhost == InitGhost /\ [][Next]_vars

\* where moveGhost puts the ghost of item i for a pointer at [x, y]
GhostAt(i, at) ==
  Def([left |-> at.x - Val(movementState[i].ganttLeft),
       top |-> at.y - Val(movementState[i].ganttTop) - Val(movementState[i].itemTop)
               + MarginTop])

\* C24: with the ghost enabled, every pointermove handled while an item is
\* moving puts the item's ghost at the pointer's position, whether or not
\* the event changed the item's time or row and whatever the item's moveable
\* setting.
C24_GhostFollowsPointer ==
  [][ \A i \in Items :
        (MoveEventFor(i) /\ options.ghostNode /\ movementState[i].moving)
        => movementState'[i].ghost = GhostAt(i, Val(moveAt')) ]_vars

C26_EmptyAreaDeselectsAll ==
  [][ (last'.op = "selectCells" /\ Len(getItemsUnderSelectionArea) = 0)
      => /\ \A i \in SelItems : ~itemSelected'[i]
         /\ selected' = << >>
         /\ observed' = << [i \in SelItems |-> FALSE] >> ]_vars

\* a cell drag has been handled: the plugin is selecting, nothing is
\* selected and the subscribers have been told so
C26_Witness ==
  /\ last.op = "selectCells"
  /\ selData.isSelecting
  /\ selData.targetType = "CELL"
  /\ selected = << >>
  /\ \A i \in SelItems : ~itemSelected[i]
  /\ observed = << [i \in SelItems |-> FALSE] >>

Duration(it) == it.end - it.start

\* C28: with the default snap functions a pointermove handled for a moving
\* item never increases the item's duration; a time move the validator
\* accepts shifts the start by the delta and the end by the delta minus one,
\* so the duration decreases by exactly one; any other move event leaves it.
C28_MoveShrinksByOne ==
  [][ \A i \in Items :
        (MoveEventFor(i) /\ movementState[i].moving /\ SnapOf(i) = "default")
        => LET x == Val(moveAt').x
               accepted == TimeAttempted(i, x) /\ ~MoveRejected(i, x)
           IN /\ Duration(items'[i]) <= Duration(items[i])
              /\ accepted => /\ items'[i].start = items[i].start + MoveDelta(i, x)
                             /\ items'[i].end = items[i].end + MoveDelta(i, x) - 1
                             /\ Duration(items'[i]) = Duration(items[i]) - 1
              /\ ~accepted => Duration(items'[i]) = Duration(items[i]) ]_vars

\* two accepted moves have taken I1 from a duration of three to a duration
\* of one
C28_Witness ==
  /\ last.op = "move" /\ last.a
  /\ SnapOf("I1") = "default"
  /\ "I1" \in DOMAIN movementState
  /\ movementState["I1"].moving
  /\ Duration(Layout2["I1"]) = 3
  /\ Duration(items["I1"]) = 1

(***************************************************************************)
(* Properties of the moveable settings.                                    *)
(***************************************************************************)
\* the plugin option, the item's own override or the override of the item's
\* row is false
MoveableIsFalse(i) ==
  \/ options.moveable.tag = "false"
  \/ itemCfg[i].moveable.tag = "false"
  \/ rowCfg[items[i].rowId].moveable.tag = "false"

\* C29: if the plugin option moveable, the item's own moveable or the
\* moveable of the item's row is false, no pointerdown on the item's body,
\* no firing of its timer, no pointermove and no pointerup changes the
\* item's start, end or row (the item is not being resized from its handle).
C29_NotMoveableStaysPut ==
  [][ \A i \in Items :
        ( /\ last'.op \in {"labelDown", "timer", "move", "up"}
          /\ MoveableIsFalse(i)
          /\ i \in DOMAIN movementState => ~movementState[i].resizing )
        => items'[i] = items[i] ]_vars

\* a pointermove away from I1's start has been handled while I1, in a row
\* flagged non-moveable, had its moving flag on
C29_Witness ==
  /\ last.op = "move"
  /\ rowCfg[items["I1"].rowId].moveable.tag = "false"
  /\ Truthy(options.moveable)
  /\ "I1" \in DOMAIN movementState
  /\ movementState["I1"].moving /\ ~movementState["I1"].resizing
  /\ IsDef(moveAt)
  /\ LeftMs("I1", Val(moveAt).x) # items["I1"].start
  /\ DestRow("I1", Val(moveAt).y) # items["I1"].rowId

\* C30: an item whose own moveable is the axis restriction 'x' is never
\* reassigned to another row by a pointermove, whatever the moveable flag
\* of the row it sits in.
C30_AxisItemKeepsRow ==
  [][ \A i \in Items :
        (last'.op = "move" /\ itemCfg[i].moveable = MvX)
        => items'[i].rowId = items[i].rowId ]_vars

====
